---- MODULE Spec2Model ----
(***************************************************************************)
(* A model of FirebaseSESAPDatabase (src/firebaseDb.js): the facade over a *)
(* remote candidate collection, its asynchronous initialization, the       *)
(* realtime listener that refreshes the local array allCandidates, the     *)
(* write operations addCandidate / clearAll / restoreData with every       *)
(* remote request resolving on its own, the read operations getRegionData  *)
(* / getAllData / exportJSON / exportCSV, and a second facade with another *)
(* identity on the same server.                                            *)
(***************************************************************************)
EXTENDS Integers, Sequences, FiniteSets, TLC

\* ------------------------------------------------------------------ bounds
\* Longest array a restore payload holds.
MaxLen == 2
\* Facade calls (addCandidate, clearAll, restoreData) made in one behaviour.
MaxCalls == 2
\* Records the remote collection may already hold when the page loads.
MaxInitDocs == 2
\* restoreData calls among the calls of one behaviour.
MaxRestores == 1
\* Reads (getRegionData, getAllData, exportJSON, exportCSV) and caller mutations of a
\* returned array made in one behaviour.
MaxReads == 2
\* addCandidate calls the second facade makes in one behaviour.
MaxOtherAdds == 1

\* ------------------------------------------------------------ JS values
\* A JavaScript value of the kinds the facade meets: k is the kind, n the
\* number (kind "num"), s the characters (kind "str").
JUndef == [k |-> "undef", n |-> 0, s |-> << >>]
JNull == [k |-> "null", n |-> 0, s |-> << >>]
JNaN == [k |-> "nan", n |-> 0, s |-> << >>]
JNum(n) == [k |-> "num", n |-> n, s |-> << >>]
JStr(s) == [k |-> "str", n |-> 0, s |-> s]

\* ToBoolean: undefined, null, NaN, 0 and "" are falsy.
Truthy(v) ==
    CASE v.k = "num" -> v.n # 0
      [] v.k = "str" -> v.s # << >>
      [] OTHER -> FALSE

DigitChars == <<"0", "1", "2", "3", "4", "5", "6", "7", "8", "9">>
IsDigit(c) == \E d \in 1..10 : DigitChars[d] = c
DigitVal(c) == (CHOOSE d \in 1..10 : DigitChars[d] = c) - 1

\* The number read from the longest prefix of digits of s, given the value
\* acc read so far; seen tells whether any digit was read.
RECURSIVE ParsePrefix(_, _, _)
ParsePrefix(s, acc, seen) ==
    IF s # << >> /\ IsDigit(Head(s))
    THEN ParsePrefix(Tail(s), acc * 10 + DigitVal(Head(s)), TRUE)
    ELSE IF seen THEN JNum(acc) ELSE JNaN

\* parseFloat(v): v is converted to a string and its numeric prefix is read;
\* "null", "undefined", "NaN" and a string with no numeric prefix give NaN.
ParseFloat(v) ==
    CASE v.k = "num" -> v
      [] v.k = "str" -> ParsePrefix(v.s, 0, FALSE)
      [] OTHER -> JNaN

\* a - b on two values as the sort comparator computes it: both operands go
\* through ToNumber, so a numeric string counts as its number, null as 0,
\* and undefined, NaN or a non-numeric string make the difference NaN.
ToNumber(v) ==
    CASE v.k = "num" -> v
      [] v.k = "null" -> JNum(0)
      [] v.k = "str" ->
           IF v.s = << >> THEN JNum(0)
           ELSE IF \A i \in 1..Len(v.s) : IsDigit(v.s[i])
                THEN ParsePrefix(v.s, 0, FALSE) ELSE JNaN
      [] OTHER -> JNaN

\* ------------------------------------------------------------- strings
\* A string is the sequence of its characters; a word no operation looks
\* into is written as one unit.
Ana == <<"Ana">>
Bob == <<"Bob">>
Cy == <<"Cy">>
Dee == <<"Dee">>
Old == <<"Old">>
Ampla == JStr(<<"ampla">>)
Pcd == JStr(<<"pcd">>)
Ppp == JStr(<<"ppp">>)
North == JStr(<<"north">>)
South == JStr(<<"south">>)
\* A timestamp a payload or an existing record carries.
T0 == JStr(<<"2024-01-01T00:00:00.000Z">>)
\* new Date().toISOString(): the instant of the call.
Now == JStr(<<"2026-01-01T00:00:00.000Z">>)

Tipos == <<Ampla, Pcd, Ppp>>
Regions == {North, South}

\* ------------------------------------------------- candidates and JSON
\* The data of a candidate document (a field that is absent is JUndef).
Data(nome, pontuacao, tipo, region, timestamp) ==
    [nome |-> nome, pontuacao |-> pontuacao, tipo |-> tipo,
     region |-> region, timestamp |-> timestamp]

\* A stored document: the server-assigned id and the data.
Doc(id, d) ==
    [id |-> id, nome |-> d.nome, pontuacao |-> d.pontuacao, tipo |-> d.tipo,
     region |-> d.region, timestamp |-> d.timestamp]

\* An element of a parsed JSON array: null, a primitive, or an object with
\* the fields below (a key that is absent is JUndef).
Elem(kind, id, d) ==
    [kind |-> kind, id |-> id, nome |-> d.nome, pontuacao |-> d.pontuacao,
     tipo |-> d.tipo, region |-> d.region, timestamp |-> d.timestamp]

NoData == Data(JUndef, JUndef, JUndef, JUndef, JUndef)
ElemNull == Elem("null", JUndef, NoData)
ElemPrim == Elem("prim", JUndef, NoData)
ElemObj(d) == Elem("obj", JUndef, d)

DataFields == {"nome", "pontuacao", "tipo", "region", "timestamp"}
RecFields == DataFields \cup {"id"}

\* A JSON text: one that does not parse, or the document it parses to.
Text(top, items) == [top |-> top, items |-> items]
EmptyText == Text("invalid", << >>)

\* ------------------------------------------------------------- inputs
\* The records a restore payload is built from: a valid record with score 0
\* and no timestamp, a valid record whose score is a numeric string and that
\* carries a timestamp, a record with no score, a record whose score is
\* null, a record with an empty name, the element null and a primitive.
EA == ElemObj(Data(JStr(Ana), JNum(0), Ampla, North, JUndef))
EB == ElemObj(Data(JStr(Bob), JStr(<<"9", "5">>), Ampla, North, T0))
ENoScore == ElemObj(Data(JStr(Cy), JUndef, Pcd, North, JUndef))
ENullScore == ElemObj(Data(JStr(Dee), JNull, Ampla, North, JUndef))
EEmptyName == ElemObj(Data(JStr(<< >>), JNum(5), Ppp, South, JUndef))
PayloadElems == {EA, EB, ENoScore, ENullScore, EEmptyName, ElemNull, ElemPrim}

ArraysOf(S) == UNION {[1..n -> S] : n \in 0..MaxLen}
\* What the caller may hand to restoreData: a text that does not parse, the
\* texts "null", "{...}" and "7", and every array of at most MaxLen elements.
Payloads ==
    {Text(t, << >>) : t \in {"invalid", "null", "object", "number"}}
        \cup {Text("array", a) : a \in ArraysOf(PayloadElems)}

\* The candidate objects the caller hands to addCandidate (nome, pontuacao,
\* tipo), with the regions it names.
AddCands ==
    {Data(JStr(Ana), JNum(90), Ampla, JUndef, JUndef),
     Data(JStr(Bob), JNum(95), Ampla, JUndef, JUndef)}

\* The identities the server knows, and the one the sign-in of this page
\* yields (auth.currentUser.uid).
Users == {"u1", "u2"}
SignedInUser == "u1"
\* The identity of a second facade (another browser, another account).
OtherUser == "u2"

\* A path that leaves the user out: every facade names the same collection.
CollectionUser_Shared(uid) == OtherUser

\* The collection the path artifacts/${appId}/users/${userId}/candidates
\* names, told by the user whose documents it holds: the path carries the
\* userId as a segment of its own, so two userIds never name one collection.
CollectionUser(uid) == uid

\* The collection a page load may find on the server: records of an earlier
\* session, with ids 1..n.
InitDoc(i) == Doc(i, Data(JStr(Old), JNum(50 + i), Ampla, North, T0))
InitialCollections == {{InitDoc(i) : i \in 1..n} : n \in 0..MaxInitDocs}

\* -------------------------------------------------------------- state
VARIABLES
    pathOk,         \* the collection path built from appId and userId is valid
    initPc,         \* where initializeFirebase is: "signingIn", "done", "failed"
    userId,         \* this.userId ("none" is null)
    isAuthReady,    \* this.isAuthReady
    listening,      \* onSnapshot has attached the listener
    remote,         \* user -> the documents of that user's candidates collection
    nextId,         \* the next id the server assigns
    allCandidates,  \* this.allCandidates, the local array
    dirty,          \* a snapshot is waiting to be delivered to the listener
    calls,          \* call -> the state of that addCandidate/clearAll/restoreData
    ret,            \* the value the last read returned, as the caller holds it
    nReads,         \* reads and caller mutations made so far
    dispatched,     \* the local array as the observers of each firebaseDataUpdated
                    \* event of the last run of the listener callback saw it
    otherCache,     \* allCandidates of a second facade, signed in as OtherUser
    otherDirty      \* a snapshot is waiting to be delivered to that facade

\* The state of the second facade.
other == <<otherCache, otherDirty>>

vars ==
    <<pathOk, initPc, userId, isAuthReady, listening, remote, nextId,
      allCandidates, dirty, calls, ret, nReads, dispatched, other>>

Calls == 1..MaxCalls

\* A call that has not been made.
IdleCall ==
    [op |-> "none", pc |-> "idle", res |-> "none", text |-> EmptyText,
     adds |-> << >>, ids |-> << >>, pendAdd |-> {}, failAdd |-> {},
     queried |-> "no", snap |-> {}, pendDel |-> {},
     okDel |-> {}, failDel |-> {}, nQuery |-> 0, nDel |-> 0, nAdd |-> 0,
     threw |-> FALSE, ready |-> FALSE, preIds |-> {}, overlap |-> FALSE,
     delUser |-> "none", addUser |-> "none"]

NoRet ==
    [op |-> "none", arr |-> << >>, text |-> EmptyText,
     ampla |-> << >>, pcd |-> << >>, ppp |-> << >>, region |-> JUndef,
     src |-> << >>, share |-> "none", csv |-> << >>]

\* constructor and the synchronous head of initializeFirebase: the fields
\* are set, and JSON.parse/initializeApp/getAuth/getFirestore either throw
\* (the catch logs: "failed") or the sign-in is awaited.
Init ==
    /\ pathOk \in BOOLEAN
    /\ initPc \in {"signingIn", "failed"}
    /\ userId = "none"
    /\ isAuthReady = FALSE
    /\ listening = FALSE
    /\ \E c0 \in InitialCollections : remote = [u \in Users |-> c0]
    /\ nextId = MaxInitDocs + 1
    /\ allCandidates = << >>
    /\ dirty = FALSE
    /\ calls = [c \in Calls |-> IdleCall]
    /\ ret = NoRet
    /\ nReads = 0
    /\ dispatched = << >>
    /\ otherCache = << >>
    /\ otherDirty = TRUE

\* ------------------------------------------------------ initialization
\* _setupCandidatesListener: returns early when not ready; collection()
\* throws on an invalid path; otherwise onSnapshot attaches the listener and
\* the first snapshot is on its way. "threw" tells whether it threw.
SetupCandidatesListener(ready) ==
    IF ~ready THEN [attached |-> FALSE, threw |-> FALSE]
    ELSE IF ~pathOk THEN [attached |-> FALSE, threw |-> TRUE]
    ELSE [attached |-> TRUE, threw |-> FALSE]

\* A sign-in that may resolve again after the facade is set up, each time
\* with the identity the server then reports.
SignInResolve_Renegotiate ==
    /\ initPc \in {"signingIn", "done"}
    /\ \E uid \in Users :
         LET attach == SetupCandidatesListener(TRUE) IN
         /\ userId' = uid
         /\ isAuthReady' = TRUE
         /\ listening' = attach.attached
         /\ dirty' = attach.attached
         /\ initPc' = IF attach.threw THEN "failed" ELSE "done"
    /\ UNCHANGED <<pathOk, remote, nextId, allCandidates, calls, ret, nReads,
                   dispatched, other>>

\* The sign-in resolves. Rejected: the catch logs and nothing is set.
\* Fulfilled: userId and isAuthReady are set and the listener is set up; if
\* that throws, the catch logs.
SignInResolve ==
    /\ initPc = "signingIn"
    /\ \E ok \in BOOLEAN :
         IF ~ok
         THEN /\ initPc' = "failed"
              /\ UNCHANGED <<userId, isAuthReady, listening, dirty>>
         ELSE LET attach == SetupCandidatesListener(TRUE) IN
              /\ userId' = SignedInUser
              /\ isAuthReady' = TRUE
              /\ listening' = attach.attached
              /\ dirty' = attach.attached
              /\ initPc' = IF attach.threw THEN "failed" ELSE "done"
    /\ UNCHANGED <<pathOk, remote, nextId, allCandidates, calls, ret, nReads,
                   dispatched, other>>

\* ------------------------------------------------------------ listener
\* The documents of a collection in the order a snapshot lists them (by id).
RECURSIVE SnapshotSeq(_)
SnapshotSeq(docs) ==
    IF docs = {} THEN << >>
    ELSE LET d == CHOOSE x \in docs : \A y \in docs : x.id <= y.id
         IN <<d>> \o SnapshotSeq(docs \ {d})

\* The record the listener pushes for a document: { id: doc.id, ...doc.data() }.
RECURSIVE NumChars(_)
NumChars(n) ==
    IF n < 10 THEN <<DigitChars[n + 1]>>
    ELSE NumChars(n \div 10) \o <<DigitChars[(n % 10) + 1]>>
IdStr(id) == JStr(NumChars(id))
CacheRecord(d) == [d EXCEPT !.id = IdStr(d.id)]

\* The listener pushing the records of a snapshot onto the array it has.
ListenerArray_KeepOld(old, docs) ==
    LET snap == SnapshotSeq(docs)
    IN old \o [i \in 1..Len(snap) |-> CacheRecord(snap[i])]

\* The array the listener builds from a snapshot: the old array is dropped
\* and one record is pushed per document.
ListenerArray(old, docs) ==
    LET snap == SnapshotSeq(docs)
    IN [i \in 1..Len(snap) |-> CacheRecord(snap[i])]

\* The collection the listener is attached to.
Listened == remote[CollectionUser(userId)]

\* A listener that is handed the first snapshot only, like a getDocs.
Deliver_FirstOnly ==
    /\ listening
    /\ dirty
    /\ dispatched = << >>
    /\ allCandidates' = ListenerArray(allCandidates, Listened)
    /\ dispatched' = <<allCandidates'>>
    /\ dirty' = FALSE
    /\ UNCHANGED <<pathOk, initPc, userId, isAuthReady, listening, remote,
                   nextId, calls, ret, nReads, other>>

\* The onSnapshot callback: the local array is rebuilt from the snapshot,
\* then _dispatchDataUpdateEvent raises one firebaseDataUpdated event, whose
\* observers see the rebuilt array.
Deliver ==
    /\ listening
    /\ dirty
    /\ allCandidates' = ListenerArray(allCandidates, Listened)
    /\ dispatched' = <<allCandidates'>>
    /\ dirty' = FALSE
    /\ UNCHANGED <<pathOk, initPc, userId, isAuthReady, listening, remote,
                   nextId, calls, ret, nReads, other>>

\* The error callback of onSnapshot: the listen has failed (permission
\* denied, the stream closed for good); the error is logged, and the
\* callback is handed no further snapshot.
ListenerError ==
    /\ listening
    /\ listening' = FALSE
    /\ UNCHANGED <<pathOk, initPc, userId, isAuthReady, remote, nextId,
                   allCandidates, dirty, calls, ret, nReads, dispatched, other>>

\* ---------------------------------------------------- calls in general
Ids(docs) == {d.id : d \in docs}

\* A call whose requests are not all resolved.
InFlight(cr) ==
    cr.op # "none" /\ (cr.pc # "done" \/ cr.pendAdd # {} \/ cr.pendDel # {})

\* Call c may be made now: the calls are made in the order of their numbers.
CanStart(c) ==
    /\ calls[c].op = "none"
    /\ \A d \in Calls : d < c => calls[d].op # "none"

\* The bookkeeping of a call that starts: whether the facade is ready, what
\* the collection holds and whether another call is in flight (and that one
\* overlaps with it too).
Started(c, cr) ==
    [d \in Calls |->
        IF d = c
        THEN [cr EXCEPT !.ready = isAuthReady,
                        !.preIds = IF isAuthReady THEN Ids(Listened) ELSE {},
                        !.overlap = \E e \in Calls \ {c} : InFlight(calls[e])]
        ELSE IF InFlight(calls[d]) THEN [calls[d] EXCEPT !.overlap = TRUE]
        ELSE calls[d]]

Returned(cr, result) ==
    [cr EXCEPT !.pc = "done", !.res = IF result THEN "true" ELSE "false"]

\* --------------------------------------------------------- addCandidate
\* The document addCandidate writes: the candidate's own fields, the region
\* and a fresh timestamp.
AddedData(region, candidate) ==
    [candidate EXCEPT !.region = region, !.timestamp = Now]

\* addCandidate without its readiness guard.
AddCandidateHead_NoGuard(cr, region, candidate) ==
    IF ~pathOk THEN Returned(cr, FALSE)
    ELSE [cr EXCEPT !.pc = "adding", !.addUser = CollectionUser(userId),
                    !.adds = <<AddedData(region, candidate)>>,
                    !.ids = <<0>>, !.pendAdd = {1}, !.nAdd = 1]

\* addCandidate up to its await: the readiness guard, collection() (which
\* throws on an invalid path: the catch returns false), addDoc issued.
AddCandidateHead(cr, region, candidate) ==
    IF ~isAuthReady THEN Returned(cr, FALSE)
    ELSE IF ~pathOk THEN Returned(cr, FALSE)
    ELSE [cr EXCEPT !.pc = "adding", !.addUser = CollectionUser(userId),
                    !.adds = <<AddedData(region, candidate)>>,
                    !.ids = <<0>>, !.pendAdd = {1}, !.nAdd = 1]

AddCandidate(c) ==
    /\ CanStart(c)
    /\ \E region \in Regions, candidate \in AddCands :
         calls' = Started(c, AddCandidateHead([IdleCall EXCEPT !.op = "add"],
                                              region, candidate))
    /\ UNCHANGED <<pathOk, initPc, userId, isAuthReady, listening, remote,
                   nextId, allCandidates, dirty, ret, nReads,
                   dispatched, other>>

\* What the call does when one of its addDoc promises settles: a rejection
\* rejects the awaited promise (addDoc itself, or Promise.all at once), and
\* the call returns false from its catch; the last fulfilment lets it
\* return true.
AfterAdd(cr, ok) ==
    IF cr.pc # "adding" THEN cr
    ELSE IF ~ok THEN Returned(cr, FALSE)
    ELSE IF cr.pendAdd = {} THEN Returned(cr, TRUE)
    ELSE cr

\* The server has changed the collection of user u: a snapshot is on its way
\* to every listener attached to that collection.
Notify(u) ==
    /\ dirty' = IF u = CollectionUser(userId) /\ listening THEN TRUE ELSE dirty
    /\ otherDirty' = IF u = OtherUser THEN TRUE ELSE otherDirty

\* An addDoc request resolves: the server stores the document under a new id,
\* or the request fails. It resolves whether or not its call has returned.
AddResolve(c) ==
    /\ \E i \in calls[c].pendAdd, ok \in BOOLEAN :
         LET cr == calls[c]
             settled == [cr EXCEPT !.pendAdd = @ \ {i},
                                   !.ids[i] = IF ok THEN nextId ELSE 0,
                                   !.failAdd = IF ok THEN @ ELSE @ \cup {i}]
         IN /\ calls' = [calls EXCEPT ![c] = AfterAdd(settled, ok)]
            /\ IF ok
               THEN /\ remote' = [remote EXCEPT
                                    ![cr.addUser] = @ \cup {Doc(nextId, cr.adds[i])}]
                    /\ nextId' = nextId + 1
                    /\ Notify(cr.addUser)
               ELSE UNCHANGED <<remote, nextId, dirty, otherDirty>>
    /\ UNCHANGED <<pathOk, initPc, userId, isAuthReady, listening,
                   allCandidates, ret, nReads, dispatched, otherCache>>

\* ------------------------------------------------------------ restoreData
\* The validation with the score tested for truth like the other fields.
IsValidCandidate_TruthyScore(e) ==
    /\ Truthy(e.nome)
    /\ Truthy(e.pontuacao)
    /\ Truthy(e.tipo)
    /\ Truthy(e.region)

\* The validation of line 191 on an element that is not null: property
\* access on a primitive gives undefined.
IsValidCandidate(e) ==
    /\ Truthy(e.nome)
    /\ e.pontuacao.k # "undef"
    /\ Truthy(e.tipo)
    /\ Truthy(e.region)

\* The document restoreData writes for a valid element.
RestoredData(e) ==
    Data(e.nome, ParseFloat(e.pontuacao), e.tipo, e.region,
         IF Truthy(e.timestamp) THEN e.timestamp ELSE Now)

\* The for-loop of restoreData over the parsed array: each valid element is
\* handed to addDoc, an invalid one is skipped, and reading candidate.nome of
\* a null element throws, which ends the loop with the requests made so far.
RECURSIVE RestoreLoop(_, _)
RestoreLoop(items, acc) ==
    IF items = << >> THEN [adds |-> acc, threw |-> FALSE]
    ELSE LET e == Head(items) IN
         IF e.kind = "null" THEN [adds |-> acc, threw |-> TRUE]
         ELSE IF IsValidCandidate(e)
              THEN RestoreLoop(Tail(items), Append(acc, RestoredData(e)))
              ELSE RestoreLoop(Tail(items), acc)

\* restoreData after its clearAll has returned (the result is not looked at):
\* collection(), the loop, then Promise.all over the addDoc promises.
RestoreWrite(cr) ==
    IF ~pathOk THEN Returned(cr, FALSE)
    ELSE LET loop == RestoreLoop(cr.text.items, << >>)
             n == Len(loop.adds)
             issued == [cr EXCEPT !.addUser = CollectionUser(userId),
                                  !.adds = loop.adds,
                                  !.ids = [i \in 1..n |-> 0],
                                  !.pendAdd = 1..n, !.nAdd = n,
                                  !.threw = loop.threw]
         IN IF loop.threw THEN Returned(issued, FALSE)
            ELSE IF n = 0 THEN Returned(issued, TRUE)
            ELSE [issued EXCEPT !.pc = "adding"]

\* --------------------------------------------------------------- clearAll
\* clearAll has returned result: the call is over, or restoreData goes on.
ClearAllReturned(cr, result) ==
    IF cr.op = "restore" THEN RestoreWrite(cr) ELSE Returned(cr, result)

\* clearAll up to its await, the readiness guard passed: collection() (which
\* throws on an invalid path: the catch returns false), getDocs issued.
ClearAllHead(cr) ==
    IF ~pathOk THEN ClearAllReturned(cr, FALSE)
    ELSE [cr EXCEPT !.pc = "query", !.queried = "pending", !.nQuery = 1,
                    !.delUser = CollectionUser(userId)]

ClearAll(c) ==
    /\ CanStart(c)
    /\ LET cr == [IdleCall EXCEPT !.op = "clear"] IN
       calls' = Started(c, IF ~isAuthReady THEN Returned(cr, FALSE)
                           ELSE ClearAllHead(cr))
    /\ UNCHANGED <<pathOk, initPc, userId, isAuthReady, listening, remote,
                   nextId, allCandidates, dirty, ret, nReads,
                   dispatched, other>>

\* The deletions clearAll issues for a query snapshot: one deleteDoc per
\* document; with none, Promise.all([]) is fulfilled and clearAll returns true.
IssueDeletes(cr, docs) ==
    LET issued == [cr EXCEPT !.queried = "ok", !.snap = Ids(docs),
                             !.pendDel = Ids(docs),
                             !.nDel = Cardinality(docs)]
    IN IF docs = {} THEN ClearAllReturned(issued, TRUE)
       ELSE [issued EXCEPT !.pc = "deleting"]

\* getDocs resolves: with the documents of the collection, or it fails and
\* the catch of clearAll returns false.
QueryResolve(c) ==
    /\ calls[c].pc = "query"
    /\ \E ok \in BOOLEAN :
         calls' = [calls EXCEPT ![c] =
                     IF ok THEN IssueDeletes(@, remote[@.delUser])
                     ELSE ClearAllReturned([@ EXCEPT !.queried = "fail"], FALSE)]
    /\ UNCHANGED <<pathOk, initPc, userId, isAuthReady, listening, remote,
                   nextId, allCandidates, dirty, ret, nReads,
                   dispatched, other>>

\* clearAll returning true at the first fulfilled deletion.
AfterDelete_FirstFulfilled(cr, ok) ==
    IF cr.pc # "deleting" THEN cr
    ELSE IF ~ok THEN ClearAllReturned(cr, FALSE)
    ELSE ClearAllReturned(cr, TRUE)

\* clearAll waiting for every deletion to settle and ignoring rejections.
AfterDelete_IgnoreFailure(cr, ok) ==
    IF cr.pc # "deleting" THEN cr
    ELSE IF cr.pendDel = {} THEN ClearAllReturned(cr, TRUE)
    ELSE cr

\* What clearAll does when one of its deleteDoc promises settles: a rejection
\* rejects Promise.all at once and the catch returns false; the last
\* fulfilment lets it return true.
AfterDelete(cr, ok) ==
    IF cr.pc # "deleting" THEN cr
    ELSE IF ~ok THEN ClearAllReturned(cr, FALSE)
    ELSE IF cr.pendDel = {} THEN ClearAllReturned(cr, TRUE)
    ELSE cr

\* A deleteDoc request resolves: the server removes the document (if it is
\* still there), or the request fails. It resolves whether or not its call
\* has gone on.
DeleteResolve(c) ==
    /\ \E id \in calls[c].pendDel, ok \in BOOLEAN :
         LET cr == calls[c]
             settled == [cr EXCEPT !.pendDel = @ \ {id},
                                   !.okDel = IF ok THEN @ \cup {id} ELSE @,
                                   !.failDel = IF ok THEN @ ELSE @ \cup {id}]
             left == {d \in remote[cr.delUser] : d.id # id}
         IN /\ calls' = [calls EXCEPT ![c] = AfterDelete(settled, ok)]
            /\ IF ok /\ left # remote[cr.delUser]
               THEN /\ remote' = [remote EXCEPT ![cr.delUser] = left]
                    /\ Notify(cr.delUser)
               ELSE UNCHANGED <<remote, dirty, otherDirty>>
    /\ UNCHANGED <<pathOk, initPc, userId, isAuthReady, listening, nextId,
                   allCandidates, ret, nReads, dispatched, otherCache>>

\* ------------------------------------------------- restoreData, the call
\* JSON.parse(jsonData): throws on a text that does not parse.
JsonParse(text) == [threw |-> text.top = "invalid", value |-> text]

\* restoreData without the check that the parsed value is an array.
RestoreDataHead_NoArrayCheck(cr) ==
    IF ~isAuthReady THEN Returned(cr, FALSE)
    ELSE LET parsed == JsonParse(cr.text) IN
         IF parsed.threw THEN Returned(cr, FALSE)
         ELSE ClearAllHead(cr)

\* restoreData up to its first await: the readiness guard, JSON.parse (a
\* throw is caught: false), the array check, then clearAll is entered.
RestoreDataHead(cr) ==
    IF ~isAuthReady THEN Returned(cr, FALSE)
    ELSE LET parsed == JsonParse(cr.text) IN
         IF parsed.threw THEN Returned(cr, FALSE)
         ELSE IF parsed.value.top # "array" THEN Returned(cr, FALSE)
         ELSE ClearAllHead(cr)

\* ------------------------------------------------------ JSON.stringify
\* JSON.stringify of a field value: NaN is written as null (a key whose
\* value is undefined is left out, which JUndef already says).
JsonValue(v) == IF v.k = "nan" THEN JNull ELSE v

\* JSON.stringify of the local array: the text of an array of objects.
JsonStringify(arr) ==
    Text("array",
         [i \in 1..Len(arr) |->
            [kind |-> "obj", id |-> JsonValue(arr[i].id),
             nome |-> JsonValue(arr[i].nome),
             pontuacao |-> JsonValue(arr[i].pontuacao),
             tipo |-> JsonValue(arr[i].tipo),
             region |-> JsonValue(arr[i].region),
             timestamp |-> JsonValue(arr[i].timestamp)]])

\* exportJSON(): the indented text of the local array.
ExportJSON(arr) == JsonStringify(arr)

\* getAllData(): JSON.parse(JSON.stringify(this.allCandidates)), an array of
\* new objects.
GetAllData(arr) == JsonParse(JsonStringify(arr)).value.items

RestoreData(c) ==
    /\ CanStart(c)
    /\ Cardinality({d \in Calls : calls[d].op = "restore"}) < MaxRestores
    /\ \E text \in Payloads \cup {ExportJSON(allCandidates)} :
         calls' = Started(c, RestoreDataHead([IdleCall EXCEPT !.op = "restore",
                                                              !.text = text]))
    /\ UNCHANGED <<pathOk, initPc, userId, isAuthReady, listening, remote,
                   nextId, allCandidates, dirty, ret, nReads,
                   dispatched, other>>

\* The backups two restoreData calls made close together are handed: one
\* record each, told apart by the name.
RacePayloads == {Text("array", <<EA>>), Text("array", <<EB>>)}

\* restoreData called with one of those backups, any number of times.
RestoreDataRace(c) ==
    /\ CanStart(c)
    /\ \E text \in RacePayloads :
         calls' = Started(c, RestoreDataHead([IdleCall EXCEPT !.op = "restore",
                                                              !.text = text]))
    /\ UNCHANGED <<pathOk, initPc, userId, isAuthReady, listening, remote,
                   nextId, allCandidates, dirty, ret, nReads,
                   dispatched, other>>

\* ------------------------------------------------------- second facade
\* The collection of the second facade.
OtherListened == remote[CollectionUser(OtherUser)]

\* The onSnapshot callback of the second facade: its local array is rebuilt
\* from a snapshot of its own collection.
OtherDeliver ==
    /\ otherDirty
    /\ otherCache' = ListenerArray(otherCache, OtherListened)
    /\ otherDirty' = FALSE
    /\ UNCHANGED <<pathOk, initPc, userId, isAuthReady, listening, remote,
                   nextId, allCandidates, dirty, calls, ret, nReads,
                   dispatched>>

\* The documents the second facade has added (the server names them apart
\* from every other document: 90, 91, ...).
OtherAdded == {d \in OtherListened : d.id >= 90}

\* An addCandidate of the second facade: the server stores the document in
\* that facade's collection.
OtherAdd ==
    /\ Cardinality(OtherAdded) < MaxOtherAdds
    /\ LET id == 90 + Cardinality(OtherAdded)
           d == AddedData(South, Data(JStr(Cy), JNum(70), Pcd, JUndef, JUndef))
       IN remote' = [remote EXCEPT ![CollectionUser(OtherUser)] =
                       @ \cup {Doc(id, d)}]
    /\ Notify(CollectionUser(OtherUser))
    /\ UNCHANGED <<pathOk, initPc, userId, isAuthReady, listening, nextId,
                   allCandidates, calls, ret, nReads, dispatched, otherCache>>

\* ------------------------------------------------------ getRegionData
\* a == b on two values.
LooseEq(a, b) ==
    CASE a.k = b.k -> a.k # "nan" /\ a = b
      [] {a.k, b.k} = {"null", "undef"} -> TRUE
      [] {a.k, b.k} = {"num", "str"} ->
           ToNumber(a).k = "num" /\ ToNumber(a) = ToNumber(b)
      [] OTHER -> FALSE

\* a === b on two values.
StrictEq(a, b) == a.k # "nan" /\ a = b

\* The sign of the comparator (a, b) => b.pontuacao - a.pontuacao; a NaN
\* difference counts as 0, as sort treats it.
Compare(a, b) ==
    LET x == ToNumber(a.pontuacao)
        y == ToNumber(b.pontuacao)
    IN IF x.k = "nan" \/ y.k = "nan" THEN 0
       ELSE IF y.n < x.n THEN -1
       ELSE IF y.n > x.n THEN 1
       ELSE 0

\* x put into a sorted array after every element that does not come after it.
RECURSIVE Insert(_, _)
Insert(x, sorted) ==
    IF sorted = << >> THEN <<x>>
    ELSE IF Compare(x, Head(sorted)) < 0 THEN <<x>> \o sorted
    ELSE <<Head(sorted)>> \o Insert(x, Tail(sorted))

\* The stable sort by the comparator.
RECURSIVE StableSort(_)
StableSort(arr) ==
    IF arr = << >> THEN << >>
    ELSE Insert(arr[Len(arr)], StableSort(SubSeq(arr, 1, Len(arr) - 1)))

\* The comparator orders the elements consistently: being tied is transitive.
Consistent(arr) ==
    \A i, j, k \in 1..Len(arr) :
        Compare(arr[i], arr[j]) = 0 /\ Compare(arr[j], arr[k]) = 0
            => Compare(arr[i], arr[k]) = 0

\* Every order of the elements of arr.
Orderings(arr) ==
    {[i \in 1..Len(arr) |-> arr[f[i]]] :
        f \in {g \in [1..Len(arr) -> 1..Len(arr)] :
                 \A i, j \in 1..Len(arr) : g[i] = g[j] => i = j}}

\* The arrays Array.prototype.sort may leave: the stable sort when the
\* comparator is consistent; otherwise the language leaves the order to the
\* engine (for the scores 51, NaN, 95 in this order, insertion from the
\* front gives 95, 51, NaN and binary insertion leaves 51, NaN, 95).
SortOutcomes(arr) ==
    IF Consistent(arr) THEN {StableSort(arr)} ELSE Orderings(arr)

\* The candidates of a region and a category, before they are sorted.
RegionTipo(arr, region, tipo) ==
    LET InRegion(c) == LooseEq(c.region, region)
        OfTipo(c) == StrictEq(c.tipo, tipo)
    IN SelectSeq(SelectSeq(arr, InRegion), OfTipo)

\* The objects getRegionData(region) may return.
GetRegionData(arr, region) ==
    {[ampla |-> a, pcd |-> p, ppp |-> q] :
        a \in SortOutcomes(RegionTipo(arr, region, Ampla)),
        p \in SortOutcomes(RegionTipo(arr, region, Pcd)),
        q \in SortOutcomes(RegionTipo(arr, region, Ppp))}

\* ---------------------------------------------------------------- reads
\* getRegionData sorting the local array itself before it filters.
ReadGetRegionData_SortInPlace ==
    /\ nReads < MaxReads
    /\ \E sorted \in SortOutcomes(allCandidates) :
         /\ allCandidates' = sorted
         /\ \E region \in Regions :
            \E data \in GetRegionData(sorted, region) :
              ret' = [NoRet EXCEPT !.op = "getRegionData", !.region = region,
                                   !.ampla = data.ampla, !.pcd = data.pcd,
                                   !.ppp = data.ppp, !.src = sorted]
    /\ nReads' = nReads + 1
    /\ UNCHANGED <<pathOk, initPc, userId, isAuthReady, listening, remote,
                   nextId, dirty, calls, dispatched, other>>

\* getRegionData(region): filter builds new arrays and sort orders those, so
\* the local array is left as it is.
ReadGetRegionData ==
    /\ nReads < MaxReads
    /\ \E region \in Regions :
       \E data \in GetRegionData(allCandidates, region) :
         ret' = [NoRet EXCEPT !.op = "getRegionData", !.region = region,
                              !.ampla = data.ampla, !.pcd = data.pcd,
                              !.ppp = data.ppp, !.src = allCandidates]
    /\ nReads' = nReads + 1
    /\ UNCHANGED <<pathOk, initPc, userId, isAuthReady, listening, remote,
                   nextId, allCandidates, dirty, calls,
                   dispatched, other>>

\* What the array getAllData returns shares with the local array: nothing.
GetAllDataShare == "none"

ReadGetAllData ==
    /\ nReads < MaxReads
    /\ ret' = [NoRet EXCEPT !.op = "getAllData",
                            !.arr = GetAllData(allCandidates),
                            !.src = allCandidates, !.share = GetAllDataShare]
    /\ nReads' = nReads + 1
    /\ UNCHANGED <<pathOk, initPc, userId, isAuthReady, listening, remote,
                   nextId, allCandidates, dirty, calls,
                   dispatched, other>>

ReadExportJSON ==
    /\ nReads < MaxReads
    /\ ret' = [NoRet EXCEPT !.op = "exportJSON",
                            !.text = ExportJSON(allCandidates),
                            !.src = allCandidates]
    /\ nReads' = nReads + 1
    /\ UNCHANGED <<pathOk, initPc, userId, isAuthReady, listening, remote,
                   nextId, allCandidates, dirty, calls,
                   dispatched, other>>

\* `${v}` in a template literal: the string of a value.
ToStr(v) ==
    CASE v.k = "str" -> v.s
      [] v.k = "num" -> NumChars(v.n)
      [] v.k = "nan" -> <<"NaN">>
      [] v.k = "null" -> <<"null">>
      [] OTHER -> <<"undefined">>

\* The category column of exportCSV.
TipoName(tipo) ==
    IF StrictEq(tipo, Ampla) THEN <<"Ampla Concorrencia">>
    ELSE IF StrictEq(tipo, Pcd) THEN <<"PCD">>
    ELSE <<"PPP">>

\* exportCSV(): the header line, then one line of five columns per record
\* of the local array, the name between quotes.
ExportCSV(arr) ==
    <<<<<<"Regiao">>, <<"Nome">>, <<"Pontuacao">>, <<"Tipo">>, <<"Data/Hora">>>>>>
        \o [i \in 1..Len(arr) |->
              <<ToStr(arr[i].region), <<"\"">> \o ToStr(arr[i].nome) \o <<"\"">>,
                ToStr(arr[i].pontuacao), TipoName(arr[i].tipo),
                ToStr(arr[i].timestamp)>>]

ReadExportCSV ==
    /\ nReads < MaxReads
    /\ ret' = [NoRet EXCEPT !.op = "exportCSV",
                            !.csv = ExportCSV(allCandidates),
                            !.src = allCandidates]
    /\ nReads' = nReads + 1
    /\ UNCHANGED <<pathOk, initPc, userId, isAuthReady, listening, remote,
                   nextId, allCandidates, dirty, calls, dispatched, other>>

\* The caller changes the array getAllData gave it: it drops the last
\* element, or overwrites the name of the first. The local array changes with
\* it only as far as the two share storage.
Mutated(arr, kind) ==
    IF kind = "pop" THEN SubSeq(arr, 1, Len(arr) - 1)
    ELSE [arr EXCEPT ![1].nome = JStr(<<"changed">>)]

MutateReturned ==
    /\ nReads < MaxReads
    /\ ret.op = "getAllData"
    /\ ret.arr # << >>
    /\ \E kind \in {"pop", "field"} :
         /\ ret' = [ret EXCEPT !.op = "mutated", !.arr = Mutated(ret.arr, kind)]
         /\ allCandidates' =
              IF ret.share = "all" \/ (ret.share = "elements" /\ kind = "field")
              THEN Mutated(allCandidates, kind)
              ELSE allCandidates
    /\ nReads' = nReads + 1
    /\ UNCHANGED <<pathOk, initPc, userId, isAuthReady, listening, remote,
                   nextId, dirty, calls,
                   dispatched, other>>

\* ----------------------------------------------------------------- spec
Next ==
    \/ SignInResolve
    \/ Deliver
    \/ \E c \in Calls : AddCandidate(c)
    \/ \E c \in Calls : ClearAll(c)
    \/ \E c \in Calls : RestoreData(c)
    \/ \E c \in Calls : QueryResolve(c)
    \/ \E c \in Calls : DeleteResolve(c)
    \/ \E c \in Calls : AddResolve(c)

Spec == Init /\ [][Next]_vars

\* The reads, over the arrays one call and the listener can produce.
NextRead ==
    \/ SignInResolve
    \/ Deliver
    \/ AddCandidate(1)
    \/ ClearAll(1)
    \/ RestoreData(1)
    \/ QueryResolve(1)
    \/ DeleteResolve(1)
    \/ AddResolve(1)
    \/ ReadGetRegionData
    \/ ReadGetAllData
    \/ ReadExportJSON
    \/ ReadExportCSV
    \/ MutateReturned

SpecRead == Init /\ [][NextRead]_vars

\* Calls of restoreData and addCandidate made while earlier ones are still
\* running, each request resolving on its own.
NextRace ==
    \/ SignInResolve
    \/ Deliver
    \/ \E c \in Calls : AddCandidate(c)
    \/ \E c \in Calls : RestoreDataRace(c)
    \/ \E c \in Calls : QueryResolve(c)
    \/ \E c \in Calls : DeleteResolve(c)
    \/ \E c \in Calls : AddResolve(c)

SpecRace == Init /\ [][NextRace]_vars

\* Two facades with different identities on one server: the calls of the
\* first, and the listener and the adds of the second.
NextTwo ==
    \/ SignInResolve
    \/ Deliver
    \/ \E c \in Calls : AddCandidate(c)
    \/ \E c \in Calls : ClearAll(c)
    \/ \E c \in Calls : RestoreDataRace(c)
    \/ \E c \in Calls : QueryResolve(c)
    \/ \E c \in Calls : DeleteResolve(c)
    \/ \E c \in Calls : AddResolve(c)
    \/ OtherDeliver
    \/ OtherAdd

SpecTwo == Init /\ [][NextTwo]_vars

\* One call, the listener and its failure, with every snapshot that is
\* waiting for an attached listener eventually handed to its callback.
NextLive ==
    \/ SignInResolve
    \/ Deliver
    \/ ListenerError
    \/ AddCandidate(1)
    \/ ClearAll(1)
    \/ RestoreData(1)
    \/ QueryResolve(1)
    \/ DeleteResolve(1)
    \/ AddResolve(1)

SpecLive == Init /\ [][NextLive]_vars /\ WF_vars(Deliver)

\* ============================================================== claims
\* Requests a call has issued, of any kind.
Issued(cr) == cr.nQuery + cr.nDel + cr.nAdd

\* Call c is made in this step.
Starts(c) == calls[c].op = "none" /\ calls'[c].op # "none"

\* Every remote operation call cr issued has succeeded.
AllSucceeded(cr) ==
    /\ cr.queried \in {"no", "ok"}
    /\ cr.failDel = {}
    /\ cr.failAdd = {}
    /\ cr.pendDel = {}
    /\ cr.pendAdd = {}

\* No call has been made after call c.
IsLastCall(c) == \A d \in Calls : d > c => calls[d].op = "none"

\* C1: a call of addCandidate, clearAll or restoreData made while
\* isAuthReady is false returns false at once, has issued no add, query or
\* delete, and leaves the remote collections and the local array as they were.
C1_NotReadyFailsFast ==
    [][\A c \in Calls :
          (Starts(c) /\ ~isAuthReady) =>
              /\ calls'[c].pc = "done"
              /\ calls'[c].res = "false"
              /\ Issued(calls'[c]) = 0
              /\ calls'[c].pendAdd = {} /\ calls'[c].pendDel = {}
              /\ remote' = remote
              /\ allCandidates' = allCandidates]_vars

\* Two different operations were called on a facade that is not ready, with
\* records on the server.
C1_Witness ==
    /\ ~isAuthReady
    /\ remote[SignedInUser] # {}
    /\ calls[1].op = "restore" /\ calls[1].text.top = "array"
    /\ calls[2].op \in {"add", "clear"}
    /\ \A c \in Calls : calls[c].res = "false"

\* C2: once a step of the initialization has failed, isAuthReady is false,
\* and every addCandidate, clearAll and restoreData call has failed.
C2_InitFailureStaysNotReady ==
    initPc = "failed" =>
        /\ ~isAuthReady
        /\ \A c \in Calls : calls[c].op # "none" => calls[c].res = "false"

\* The payload records with name, score, category and region: objects whose
\* name, category and region are non-empty strings and whose score is there.
C3_HasRequiredFields(e) ==
    /\ e.kind = "obj"
    /\ e.nome.k = "str" /\ e.nome.s # << >>
    /\ e.pontuacao.k # "undef"
    /\ e.tipo.k = "str" /\ e.tipo.s # << >>
    /\ e.region.k = "str" /\ e.region.s # << >>

\* Document d is the record written for payload element e.
C3_RecordOf(d, e) ==
    /\ d.nome = e.nome
    /\ d.tipo = e.tipo
    /\ d.region = e.region
    /\ e.pontuacao.k = "num" => d.pontuacao = e.pontuacao
    /\ e.pontuacao = JStr(<<"9", "5">>) => d.pontuacao = JNum(95)
    /\ e.timestamp.k = "str" => d.timestamp = e.timestamp

\* A restoreData call of an array payload that returned true, with every
\* remote operation succeeding, no other call in flight meanwhile and no
\* call made since.
C3_CleanRestore(c) ==
    /\ calls[c].op = "restore"
    /\ calls[c].text.top = "array"
    /\ calls[c].res = "true"
    /\ AllSucceeded(calls[c])
    /\ ~calls[c].overlap
    /\ IsLastCall(c)

C4_InvalidElementsSkipped ==
    \A c \in Calls :
        (/\ calls[c].op = "restore"
         /\ calls[c].text.top = "array"
         /\ calls[c].pc = "done"
         /\ calls[c].ready /\ pathOk
         /\ AllSucceeded(calls[c]))
        => /\ calls[c].res = "true"
           /\ Len(calls[c].adds)
                = Len(SelectSeq(calls[c].text.items, C3_HasRequiredFields))

\* C5: a restoreData whose payload does not parse, or parses to something
\* that is not an array, returns false at once, with no query, delete or add
\* issued, and the remote collections as they were.
C5_BadPayloadNoEffect ==
    [][\A c \in Calls :
          (Starts(c) /\ calls'[c].op = "restore"
                     /\ calls'[c].text.top # "array") =>
              /\ calls'[c].pc = "done"
              /\ calls'[c].res = "false"
              /\ Issued(calls'[c]) = 0
              /\ calls'[c].pendAdd = {} /\ calls'[c].pendDel = {}
              /\ remote' = remote]_vars

\* A ready, working facade with records on the server was handed a bare
\* object.
C5_Witness ==
    \E c \in Calls :
        /\ calls[c].ready /\ pathOk
        /\ calls[c].op = "restore"
        /\ calls[c].text.top = "object"
        /\ calls[c].res = "false"
        /\ remote[userId] # {}

\* C6: a clearAll whose query returned has issued one deletion per document
\* of the snapshot, no other; it has returned true only with every one of
\* them fulfilled; on an empty snapshot it issued none and returned true.
C6_ClearAllDeletesEach ==
    \A c \in Calls :
        (calls[c].op = "clear" /\ calls[c].queried = "ok") =>
            LET cr == calls[c] IN
            /\ cr.nDel = Cardinality(cr.snap)
            /\ cr.pendDel \cup cr.okDel \cup cr.failDel = cr.snap
            /\ cr.res = "true" => cr.okDel = cr.snap
            /\ cr.snap = {} => (cr.nDel = 0 /\ cr.res = "true")
            /\ cr.nQuery = 1 /\ cr.nAdd = 0

\* A clearAll of two documents returned true, and a second clearAll found
\* the collection empty.
C6_Witness ==
    /\ calls[1].op = "clear" /\ calls[1].res = "true"
    /\ Cardinality(calls[1].snap) = 2
    /\ calls[2].op = "clear" /\ calls[2].res = "true"
    /\ calls[2].queried = "ok" /\ calls[2].snap = {}

\* C7: a clearAll one of whose deletions failed has returned false, and the
\* documents whose deletion succeeded are not in the collection.
C7_ClearAllPartialFailure ==
    \A c \in Calls :
        calls[c].op = "clear" =>
            /\ calls[c].failDel # {} =>
                   (calls[c].pc = "done" /\ calls[c].res = "false")
            /\ Ids(remote[SignedInUser]) \cap calls[c].okDel = {}

\* A clearAll returned false with one deletion failed and one fulfilled: the
\* collection is partially cleared.
C7_Witness ==
    \E c \in Calls :
        /\ calls[c].op = "clear" /\ calls[c].res = "false"
        /\ calls[c].failDel # {} /\ calls[c].okDel # {}
        /\ calls[c].pendDel = {}
        /\ Ids(remote[userId]) = calls[c].failDel

\* The partitions of the object getRegionData returned, in the order of Tipos.
C8_Partitions == <<ret.ampla, ret.pcd, ret.ppp>>

\* Score a is a number below the number b.
C8_ScoreBelow(a, b) == a.k = "num" /\ b.k = "num" /\ a.n < b.n

\* C8: the object getRegionData(r) returned holds, in the partition of each
\* of the three categories, only candidates of region r and of that category,
\* and in no partition does a candidate come before one with a higher score.
C8_RegionDataSorted ==
    ret.op = "getRegionData" =>
        \A t \in 1..3 :
            LET part == C8_Partitions[t] IN
            /\ \A i \in 1..Len(part) :
                 part[i].region = ret.region /\ part[i].tipo = Tipos[t]
            /\ \A i, j \in 1..Len(part) :
                 i < j => ~C8_ScoreBelow(part[i].pontuacao, part[j].pontuacao)

\* Array arr is structurally equal to the local array src.
C9_StructEqual(arr, src) ==
    /\ Len(arr) = Len(src)
    /\ \A i \in 1..Len(arr) :
         /\ arr[i].kind = "obj"
         /\ \A f \in RecFields : arr[i][f] = src[i][f]

\* C9: the array getAllData returns is structurally equal to the local
\* array, and a caller changing it changes neither the local array nor what
\* the next getAllData returns.
C9_GetAllDataCopy ==
    [][/\ ret'.op = "getAllData" => C9_StructEqual(ret'.arr, ret'.src)
       /\ (ret.op = "getAllData" /\ ret'.op = "mutated") =>
              /\ allCandidates' = allCandidates
              /\ GetAllData(allCandidates') = GetAllData(allCandidates)]_vars

\* A payload that came from exportJSON: every element carries an id.
C10_IsExport(text) ==
    /\ text.top = "array"
    /\ \A i \in 1..Len(text.items) : text.items[i].id.k = "str"

\* Document d carries the name, score, category, region and timestamp of the
\* exported record e.
C10_SameFields(d, e) == \A f \in DataFields : d[f] = e[f]

\* C10: the text exportJSON returned parses to an array structurally equal
\* to the local array; and a restoreData of such a text that returned true,
\* every remote operation succeeding and no other call interfering, leaves
\* one document per exported record with the required fields, carrying the
\* same name, score, category, region and timestamp.
C10_ExportRoundTrip ==
    /\ ret.op = "exportJSON" =>
           /\ ~JsonParse(ret.text).threw
           /\ C9_StructEqual(JsonParse(ret.text).value.items, ret.src)
    /\ \A c \in Calls :
           (C3_CleanRestore(c) /\ C10_IsExport(calls[c].text)) =>
               LET valid == SelectSeq(calls[c].text.items, C3_HasRequiredFields)
                   docs == remote[userId]
               IN /\ Cardinality(docs) = Len(valid)
                  /\ \E f \in [1..Len(valid) -> Ids(docs)] :
                       /\ \A i, j \in 1..Len(valid) : f[i] = f[j] => i = j
                       /\ \A i \in 1..Len(valid) :
                            \E d \in docs :
                                d.id = f[i] /\ C10_SameFields(d, valid[i])

\* Array arr holds exactly the records of the documents docs, one per
\* document, in the order of the snapshot.
C11_IsSnapshot(arr, docs) ==
    /\ Len(arr) = Cardinality(docs)
    /\ \A i \in 1..Len(arr) :
         /\ \E d \in docs : arr[i] = [d EXCEPT !.id = IdStr(d.id)]
         /\ \A j \in 1..Len(arr) : i < j => arr[i].id # arr[j].id
         /\ arr[i].id = IdStr(SnapshotSeq(docs)[i].id)

\* A snapshot is delivered to the listener in this step.
C11_Delivery == dirty /\ ~dirty'

\* C11: each run of the listener callback leaves in the local array exactly
\* the records of the delivered snapshot, in its order, whatever the array
\* held before, and raises exactly one event, whose observers see the new
\* array; no other step raises an event.
C11_DeliveryReplaces ==
    [][/\ C11_Delivery =>
            /\ C11_IsSnapshot(allCandidates', Listened')
            /\ dispatched' = <<allCandidates'>>
       /\ dispatched' # dispatched => C11_Delivery]_vars

\* A reader saw a non-empty local array; since then a restore has replaced
\* the collection, and the last delivery left a non-empty array that holds
\* none of the records the reader saw, and raised one event.
C11_Witness ==
    /\ ret.op = "getAllData"
    /\ ret.src # << >>
    /\ allCandidates # << >>
    /\ \A i \in 1..Len(ret.src), j \in 1..Len(allCandidates) :
         ret.src[i] # allCandidates[j]
    /\ dispatched = <<allCandidates>>
    /\ ~dirty

\* One of the remote operations call cr issued has failed.
C12_SomeFailed(cr) ==
    cr.queried = "fail" \/ cr.failDel # {} \/ cr.failAdd # {}

\* C12: a call that has completed has returned true or false; it has
\* returned false if a query, a deletion or an add it issued has failed; and
\* it has issued each request once (one query, one deletion per document of
\* the snapshot, one add per record).
C12_FailureSurfaced ==
    \A c \in Calls :
        (calls[c].op # "none" /\ calls[c].pc = "done") =>
            /\ calls[c].res \in {"true", "false"}
            /\ C12_SomeFailed(calls[c]) => calls[c].res = "false"
            /\ calls[c].nQuery <= 1
            /\ calls[c].nDel = Cardinality(calls[c].snap)
            /\ calls[c].nAdd = Len(calls[c].adds)

\* Call c issues its adds in this step.
C13_IssuesAdds(c) == calls[c].nAdd = 0 /\ calls'[c].nAdd > 0

\* C13: when a restoreData call issues its adds, its query has resolved and
\* none of the deletions it issued is still pending.
C13_ClearBeforeWrite ==
    [][\A c \in Calls :
          (calls'[c].op = "restore" /\ C13_IssuesAdds(c)) =>
              /\ calls'[c].queried \in {"ok", "fail"}
              /\ calls'[c].pendDel = {}]_vars

\* C14: the local array changes only in a step that delivers a snapshot to
\* the listener; a step in which a call is made, a request of a call
\* resolves or a read returns leaves it as it was, contents and order.
C14_CacheOnlyByListener ==
    [][/\ allCandidates' # allCandidates => C11_Delivery
       /\ (calls' # calls \/ nReads' # nReads) =>
              allCandidates' = allCandidates]_vars

\* After the first delivery an addCandidate has returned true and its
\* document is on the server, and a read has returned the local array as it
\* is now: the new record is not in it.
C14_Witness ==
    /\ dispatched # << >>
    /\ calls[1].op = "add" /\ calls[1].res = "true"
    /\ \E d \in Listened : d.id = calls[1].ids[1]
    /\ \A i \in 1..Len(allCandidates) :
         allCandidates[i].id # IdStr(calls[1].ids[1])
    /\ ret.op \in {"getRegionData", "getAllData", "exportJSON", "exportCSV"}
    /\ ret.src = allCandidates
    /\ allCandidates # << >>

\* The clearAll step of restoreData call cr has failed: its query failed, or
\* one of its deletions did.
C15_ClearFailed(cr) ==
    cr.op = "restore" /\ (cr.queried = "fail" \/ cr.failDel # {})

\* C15: a restoreData whose clearAll step has failed has issued one add for
\* every payload record with the required fields.
C15_WritesAfterFailedClear ==
    \A c \in Calls :
        C15_ClearFailed(calls[c]) =>
            /\ calls[c].nAdd
                 = Len(SelectSeq(calls[c].text.items, C3_HasRequiredFields))
            /\ Len(calls[c].adds) = calls[c].nAdd

\* The collection the requests of call cr are addressed to is that of
\* identity uid.
C16_Targets(cr, uid) ==
    /\ cr.nQuery > 0 => cr.delUser = uid
    /\ cr.nAdd > 0 => cr.addUser = uid
    /\ cr.delUser \in {"none", uid}
    /\ cr.addUser \in {"none", uid}

\* C16: once userId is set it never changes, and every query, deletion and
\* add a call has issued is addressed to the collection of that userId.
C16_IdentityFixed ==
    /\ [][userId # "none" => userId' = userId]_vars
    /\ [](\A c \in Calls :
            Issued(calls[c]) > 0 =>
                userId # "none" /\ C16_Targets(calls[c], userId))

\* A restoreData has issued a query, deletions and adds and an addCandidate
\* has issued its add, all under the identity of the sign-in.
C16_Witness ==
    /\ userId = SignedInUser
    /\ calls[1].op = "restore"
    /\ calls[1].nQuery = 1 /\ calls[1].nDel > 0 /\ calls[1].nAdd > 0
    /\ calls[2].op = "add" /\ calls[2].nAdd = 1
    /\ \A c \in Calls : calls[c].pc = "done" /\ calls[c].pendAdd = {}

\* C17: whenever a write operation has passed the readiness guard, and
\* whenever isAuthReady is true, userId is set and the listener is attached.
C17_ReadyImpliesInitialized ==
    (isAuthReady \/ \E c \in Calls : calls[c].ready) =>
        /\ userId # "none"
        /\ listening

\* The local array holds the collection of the identity as it is now.
C18_InSync == listening /\ C11_IsSnapshot(allCandidates, Listened)

\* C18: in a behaviour where the listener is attached and never fails, from
\* some point on the local array holds the collection as it is, for good,
\* and every snapshot that waits for the listener is followed by a run of
\* the callback.
C18_CacheFollowsRemote ==
    <>[]listening =>
        /\ <>[]C18_InSync
        /\ [](dirty => <>(~dirty /\ dispatched = <<allCandidates>>))

\* An addCandidate over a collection with records has succeeded, and the
\* local array holds the old records and the new one.
C18_Witness ==
    /\ C18_InSync
    /\ ~dirty
    /\ calls[1].op = "add" /\ calls[1].res = "true"
    /\ Len(allCandidates) >= 2
    /\ \E i \in 1..Len(allCandidates) :
         allCandidates[i].id = IdStr(calls[1].ids[1])

\* The ids of the documents call cr has written.
C19_Written(cr) == {cr.ids[i] : i \in 1..Len(cr.ids)} \ {0}

\* Call cr has returned true with every request it issued fulfilled.
C19_Succeeded(cr) ==
    cr.pc = "done" /\ cr.res = "true" /\ AllSucceeded(cr)

\* The documents docs are exactly those restoreData call cr wrote, one per
\* payload record with the required fields.
C19_IsRestoreOf(docs, cr) ==
    LET valid == SelectSeq(cr.text.items, C3_HasRequiredFields)
    IN /\ Ids(docs) = C19_Written(cr)
       /\ Cardinality(docs) = Len(valid)
       /\ \A i \in 1..Len(valid) :
            \E d \in docs : d.id = cr.ids[i] /\ C3_RecordOf(d, valid[i])

\* C19: when a restoreData call and another restoreData or addCandidate
\* call overlapped and both have returned true with every request
\* fulfilled, the collection holds exactly the documents one of the restores
\* wrote, plus at most the document of the addCandidate: no document of the
\* other restore and none from before the calls.
C19_RestoreUnderInterleaving ==
    \A c, d \in Calls :
        (/\ c # d
         /\ calls[c].op = "restore"
         /\ calls[d].op \in {"restore", "add"}
         /\ calls[c].overlap /\ calls[d].overlap
         /\ C19_Succeeded(calls[c]) /\ C19_Succeeded(calls[d]))
        => LET docs == remote[userId]
               added == IF calls[d].op = "add" THEN C19_Written(calls[d])
                        ELSE {}
               before == calls[IF c < d THEN c ELSE d].preIds
           IN /\ Ids(docs) \cap before = {}
              /\ \E r \in {c, d} :
                   /\ calls[r].op = "restore"
                   /\ C19_IsRestoreOf({x \in docs : x.id \notin added},
                                      calls[r])

\* The ids of the documents the calls of the first facade have written.
C20_WrittenByFirst == UNION {C19_Written(calls[c]) : c \in Calls}

\* C20: a step of a call of the first facade (the call is made, or one of
\* its requests resolves) leaves the second facade's collection and local
\* array as they were; a step that changes the second facade's collection
\* leaves the first facade's collection and local array as they were; and
\* no document the first facade wrote is in the second facade's collection
\* or local array.
C20_Isolation ==
    /\ [][/\ calls' # calls =>
               /\ remote'[OtherUser] = remote[OtherUser]
               /\ otherCache' = otherCache
          /\ remote'[OtherUser] # remote[OtherUser] =>
               /\ remote'[SignedInUser] = remote[SignedInUser]
               /\ allCandidates' = allCandidates]_vars
    /\ [](/\ Ids(remote[OtherUser]) \cap C20_WrittenByFirst = {}
          /\ \A i \in 1..Len(otherCache) :
               \A id \in C20_WrittenByFirst : otherCache[i].id # IdStr(id))

\* The first facade has cleared its collection and added a record, all
\* with success; the second facade's collection holds the records it began
\* with and one it added itself, and its local array shows exactly those.
C20_Witness ==
    /\ calls[1].op = "clear" /\ calls[1].res = "true" /\ calls[1].nDel = 2
    /\ calls[2].op = "add" /\ calls[2].res = "true"
    /\ Ids(remote[SignedInUser]) = C19_Written(calls[2])
    /\ Cardinality(remote[OtherUser]) = 3
    /\ {1, 2} \subseteq Ids(remote[OtherUser])
    /\ ~otherDirty
    /\ C11_IsSnapshot(otherCache, remote[OtherUser])

====
